---- MODULE Spec2Model ----
(***************************************************************************)
(* A model of the POP3 mail export scripts of notebooks/email_spam:        *)
(*   pop3_to_message.py  (structured JSON export)                          *)
(*   pop3_to_txt.py      (flat corpus export)                              *)
(*                                                                         *)
(* Text is a sequence of characters; a character is a one-character string *)
(* or, outside ASCII, a token "U+XXXX".  Bytes are integers 0..255.        *)
(*                                                                         *)
(* The module holds four state machines over one set of variables:         *)
(*   Spec        fetch_messages (the POP3 session)                         *)
(*   SpecBody    extract_text_body / extract_body / message_to_struct      *)
(*   SpecHtml    html_to_text                                              *)
(*   SpecExport  the flat corpus export of pop3_to_txt.main                *)
(* Each specification leaves the variables of the others at their idle     *)
(* values.                                                                 *)
(***************************************************************************)
EXTENDS Integers, Sequences, FiniteSets, TLC

VARIABLES
    script,        \* which script runs: "message" (pop3_to_message.py) or "txt" (pop3_to_txt.py)
    \* ---- fetch_messages
    listings,      \* the server's answer to LIST: a sequence of [index, octets] lines
    max_messages,  \* the max_messages argument: <<>> for None, <<n>> for the integer n
    pc,            \* position of fetch_messages
    conn,          \* the local conn: None or "open"
    indices,       \* the local indices still to retrieve (the for loop's remainder)
    messages,      \* the local messages
    sent,          \* the commands sent on the session so far, in order
    pending,       \* the exception in flight: None or the operation that raised
    quitRaised,    \* whether conn.quit() raised inside the finally block
    result,        \* what the caller gets, once fetch_messages has ended (see Finally)
    \* ---- the body extractors and html_to_text
    msg,           \* the parsed message (a Message Tree)
    body,          \* the value extract_text_body / extract_body returned
    record,        \* the Normalized Record message_to_struct built
    twice,         \* html_to_text applied to body once more
    bpc,           \* position: "parsed", "extracted", "built", "renormalized"
    \* ---- the flat corpus export of pop3_to_txt.py
    msgs,          \* the fetched messages, in fetch order
    rows,          \* the local rows of main
    file,          \* the text written to the output file
    epc            \* position: "rows", "written"

fetchVars == <<listings, max_messages, pc, conn, indices, messages, sent, pending,
               quitRaised, result>>

bodyVars == <<msg, body, record, twice, bpc>>

exportVars == <<msgs, rows, file, epc>>

vars == <<script, fetchVars, bodyVars, exportVars>>

None == "None"

\* max_messages is None
NoMax == <<>>

\* fetch_messages has not ended
Running == [kind |-> "running", messages |-> <<>>, error |-> None]
\* fetch_messages returned the list ms
Returned(ms) == [kind |-> "returned", messages |-> ms, error |-> None]
\* fetch_messages raised the exception of operation op: the caller gets no list
Raised(op) == [kind |-> "raised", messages |-> <<>>, error |-> op]

Scripts == {"message", "txt"}

-----------------------------------------------------------------------------
(* Bounds of the model *)

\* mailbox indices are 1..MaxIndex
MaxIndex == 3
\* the requested maximum ranges over None and -1..MaxCount
MaxCount == 4

-----------------------------------------------------------------------------
(* Python list helpers *)

RECURSIVE InsertDesc(_, _)
InsertDesc(x, s) ==
    IF s = <<>> THEN <<x>>
    ELSE IF x >= Head(s) THEN <<x>> \o s
    ELSE <<Head(s)>> \o InsertDesc(x, Tail(s))

RECURSIVE InsertAsc(_, _)
InsertAsc(x, s) ==
    IF s = <<>> THEN <<x>>
    ELSE IF x <= Head(s) THEN <<x>> \o s
    ELSE <<Head(s)>> \o InsertAsc(x, Tail(s))

\* mutant of SortDescending: the sort loses reverse=True
RECURSIVE SortAscending(_)
SortAscending(s) ==
    IF s = <<>> THEN <<>> ELSE InsertAsc(Head(s), SortAscending(Tail(s)))

\* list.sort(reverse=True) on integers
RECURSIVE SortDescending(_)
SortDescending(s) ==
    IF s = <<>> THEN <<>> ELSE InsertDesc(Head(s), SortDescending(Tail(s)))

Min(a, b) == IF a <= b THEN a ELSE b
Max(a, b) == IF a >= b THEN a ELSE b

\* s[:n] for a Python list s and an integer n (a negative n counts from the end)
SliceTo(s, n) ==
    LET stop == IF n >= 0 THEN Min(n, Len(s)) ELSE Max(Len(s) + n, 0)
    IN  SubSeq(s, 1, stop)

-----------------------------------------------------------------------------
(* Characters: a character is its Unicode code point, text a sequence of them *)

\* the printable ASCII characters, code points 32..126 in order (the double quote,
\* the backslash and the backtick by name)
Printable ==
    <<" ", "!", "QUOTE", "#", "$", "%", "&", "'", "(", ")", "*", "+", ",", "-", ".", "/",
      "0", "1", "2", "3", "4", "5", "6", "7", "8", "9", ":", ";", "<", "=", ">", "?",
      "@", "A", "B", "C", "D", "E", "F", "G", "H", "I", "J", "K", "L", "M", "N", "O",
      "P", "Q", "R", "S", "T", "U", "V", "W", "X", "Y", "Z", "[", "BACKSLASH", "]", "^", "_",
      "BACKTICK", "a", "b", "c", "d", "e", "f", "g", "h", "i", "j", "k", "l", "m", "n", "o",
      "p", "q", "r", "s", "t", "u", "v", "w", "x", "y", "z", "{", "|", "}", "~">>

\* the code point of an ASCII character written as a one-character string
Ord ==
    [c \in {Printable[k] : k \in DOMAIN Printable} \cup {"\t", "\n", "\f", "\r"} |->
        IF c = "\t" THEN 9
        ELSE IF c = "\n" THEN 10
        ELSE IF c = "\f" THEN 12
        ELSE IF c = "\r" THEN 13
        ELSE 31 + (CHOOSE k \in DOMAIN Printable : Printable[k] = c)]

\* a string literal, written as a tuple of one-character strings, as text (and, for
\* ASCII, as the bytes that encode it)
Str(s) == [k \in DOMAIN s |-> Ord[s[k]]]

\* str.lower() of one character, and the case folding of re.IGNORECASE (code points
\* up to U+00FF; the capitals of Latin-1 are 192..222 without the sign 215)
Lower(c) ==
    IF (c >= 65 /\ c <= 90) \/ (c >= 192 /\ c <= 222 /\ c # 215) THEN c + 32 ELSE c

LowerText(s) == [k \in DOMAIN s |-> Lower(s[k])]

\* str.isspace(), which is also \s of re on str
IsSpace(c) ==
    c \in (9..13) \cup (28..32) \cup {133, 160, 5760} \cup (8192..8202)
          \cup {8232, 8233, 8239, 8287, 12288}

\* string.punctuation
IsPunctuation(c) == c \in (33..47) \cup (58..64) \cup (91..96) \cup (123..126)

\* the first index k >= i with s[k] = c, or 0
RECURSIVE IndexOf(_, _, _)
IndexOf(s, c, i) ==
    IF i > Len(s) THEN 0
    ELSE IF s[i] = c THEN i
    ELSE IndexOf(s, c, i + 1)

\* pat occurs in s at index i, letter case ignored (pat is lower case)
MatchesAt(s, i, pat) ==
    /\ i >= 1
    /\ i + Len(pat) - 1 <= Len(s)
    /\ \A k \in DOMAIN pat : Lower(s[i + k - 1]) = pat[k]

\* the first index k >= i at which pat occurs in s (case ignored), or 0
RECURSIVE Find(_, _, _)
Find(s, pat, i) ==
    IF i + Len(pat) - 1 > Len(s) THEN 0
    ELSE IF MatchesAt(s, i, pat) THEN i
    ELSE Find(s, pat, i + 1)

\* the index after the run of whitespace that starts at i
RECURSIVE SkipSpace(_, _)
SkipSpace(s, i) ==
    IF i <= Len(s) /\ IsSpace(s[i]) THEN SkipSpace(s, i + 1) ELSE i

\* re.sub(pattern, repl, s) for a pattern that matches no empty string: MatchEnd(s, i)
\* is the last index of the pattern's match starting at i, or 0 when it matches nothing
\* there; matches are taken leftmost first and do not overlap
RECURSIVE SubFrom(_, _, _, _)
SubFrom(s, i, MatchEnd(_, _), repl) ==
    IF i > Len(s) THEN <<>>
    ELSE LET e == MatchEnd(s, i)
         IN  IF e >= i THEN repl \o SubFrom(s, e + 1, MatchEnd, repl)
             ELSE <<s[i]>> \o SubFrom(s, i + 1, MatchEnd, repl)

Sub(s, MatchEnd(_, _), repl) == SubFrom(s, 1, MatchEnd, repl)

\* str.strip()
RECURSIVE StripLeft(_)
StripLeft(s) == IF s # <<>> /\ IsSpace(Head(s)) THEN StripLeft(Tail(s)) ELSE s

RECURSIVE StripRight(_)
StripRight(s) ==
    IF s # <<>> /\ IsSpace(s[Len(s)]) THEN StripRight(SubSeq(s, 1, Len(s) - 1)) ELSE s

Strip(s) == StripRight(StripLeft(s))

\* sep.join(parts)
RECURSIVE Join(_, _)
Join(sep, parts) ==
    IF parts = <<>> THEN <<>>
    ELSE IF Len(parts) = 1 THEN parts[1]
    ELSE parts[1] \o sep \o Join(sep, Tail(parts))

-----------------------------------------------------------------------------
(* html_to_text *)

LT == Ord["<"]
GT == Ord[">"]
AMP == Ord["&"]
SEMI == Ord[";"]
NL == Ord["\n"]
SPACE == Ord[" "]

\* (?is)<(script|style).*?>.*?</\1> : the element name, the first ">" after it, then the
\* first closing tag of the same name after that
ElementEnd(s, i, name) ==
    IF ~MatchesAt(s, i, <<LT>> \o name) THEN 0
    ELSE LET open == IndexOf(s, GT, i + 1 + Len(name))
         IN  IF open = 0 THEN 0
             ELSE LET close == Find(s, <<LT, Ord["/"]>> \o name \o <<GT>>, open + 1)
                  IN  IF close = 0 THEN 0 ELSE close + Len(name) + 2

ScriptEnd(s, i) ==
    LET a == ElementEnd(s, i, Str(<<"s", "c", "r", "i", "p", "t">>))
    IN  IF a # 0 THEN a ELSE ElementEnd(s, i, Str(<<"s", "t", "y", "l", "e">>))

\* re.sub(r"(?is)<(script|style).*?>.*?</\1>", "", html_content)
RemoveScripts(s) == Sub(s, ScriptEnd, <<>>)

\* (?i)<\s*br\s*/?\s*>
BrEnd(s, i) ==
    IF s[i] # LT THEN 0
    ELSE LET a == SkipSpace(s, i + 1)
         IN  IF ~MatchesAt(s, a, Str(<<"b", "r">>)) THEN 0
             ELSE LET b == SkipSpace(s, a + 2)
                      c == IF b <= Len(s) /\ s[b] = Ord["/"] THEN SkipSpace(s, b + 1) ELSE b
                  IN  IF c <= Len(s) /\ s[c] = GT THEN c ELSE 0

\* re.sub(r"(?i)<\s*br\s*/?\s*>", "\n", html_content)
BreaksToNewlines(s) == Sub(s, BrEnd, <<NL>>)

\* the element names of pop3_to_message.py's block pattern: p|div|h[1-6]|li|tr
BlockNames ==
    {Str(<<"p">>), Str(<<"d", "i", "v">>), Str(<<"l", "i">>), Str(<<"t", "r">>)}
    \cup {Str(<<"h", d>>) : d \in {"1", "2", "3", "4", "5", "6"}}

\* name, then \s*>, at index a: the index of the ">" or 0
NameThenClose(s, a, name) ==
    IF ~MatchesAt(s, a, name) THEN 0
    ELSE LET b == SkipSpace(s, a + Len(name))
         IN  IF b <= Len(s) /\ s[b] = GT THEN b ELSE 0

\* (?i)</\s*(p|div|h[1-6]|li|tr)\s*>
BlockCloseEnd(s, i) ==
    IF ~(s[i] = LT /\ i + 1 <= Len(s) /\ s[i + 1] = Ord["/"]) THEN 0
    ELSE LET a == SkipSpace(s, i + 2)
             ends == {NameThenClose(s, a, name) : name \in BlockNames} \ {0}
         IN  IF ends = {} THEN 0 ELSE CHOOSE e \in ends : TRUE

\* pop3_to_message.py: re.sub(r"(?i)</\s*(p|div|h[1-6]|li|tr)\s*>", "\n", html_content)
BlockClosesToNewlines(s) == Sub(s, BlockCloseEnd, <<NL>>)

\* (?i)<\s*/?\s*p\s*>
ParagraphEnd(s, i) ==
    IF s[i] # LT THEN 0
    ELSE LET a == SkipSpace(s, i + 1)
             b == IF a <= Len(s) /\ s[a] = Ord["/"] THEN SkipSpace(s, a + 1) ELSE a
         IN  NameThenClose(s, b, Str(<<"p">>))

\* pop3_to_txt.py: re.sub(r"(?i)<\s*/?\s*p\s*>", "\n", html_content)
ParagraphsToNewlines(s) == Sub(s, ParagraphEnd, <<NL>>)

\* mutant of TagEnd: the closing ">" is optional, as in <[^>]*>?
TagEndUnclosed(s, i) ==
    IF s[i] # LT THEN 0
    ELSE IF IndexOf(s, GT, i + 1) = 0 THEN Len(s)
    ELSE IndexOf(s, GT, i + 1)

\* (?s)<.*?> : from a "<" to the first ">" after it
TagEnd(s, i) == IF s[i] # LT THEN 0 ELSE IndexOf(s, GT, i + 1)

\* mutant of StripTags: the tags are left in the text
KeepTags(s) == s

\* re.sub(r"(?s)<.*?>", "", html_content)
StripTags(s) == Sub(s, TagEnd, <<>>)

\* html.entities.html5, restricted to the references the model's inputs can spell
\* (names over the letters a, g, l, m, p, t, x): name -> replacement
Html5 ==
    {<<Str(<<"a", "m", "p", ";">>), <<AMP>> >>, <<Str(<<"a", "m", "p">>), <<AMP>> >>,
     <<Str(<<"l", "t", ";">>), <<LT>> >>, <<Str(<<"l", "t">>), <<LT>> >>,
     <<Str(<<"g", "t", ";">>), <<GT>> >>, <<Str(<<"g", "t">>), <<GT>> >>}

InHtml5(name) == \E e \in Html5 : e[1] = name
Html5Of(name) == (CHOOSE e \in Html5 : e[1] = name)[2]

\* a character of a reference's name: [^\t\n\f <&#;]
IsNameChar(c) == c \notin {9, 10, 12, SPACE, LT, AMP, Ord["#"], SEMI}

\* the last index of the run of at most n name characters that starts at i (i - 1 if none)
RECURSIVE NameRunEnd(_, _, _)
NameRunEnd(s, i, n) ==
    IF n > 0 /\ i <= Len(s) /\ IsNameChar(s[i]) THEN NameRunEnd(s, i + 1, n - 1) ELSE i - 1

\* &([^\t\n\f <&#;]{1,32};?) : the named alternative of html's charref pattern (the
\* numeric alternatives need a "#" followed by a digit, which no input of the model holds)
CharrefEnd(s, i) ==
    IF s[i] # AMP THEN 0
    ELSE LET e == NameRunEnd(s, i + 1, 32)
         IN  IF e < i + 1 THEN 0
             ELSE IF e + 1 <= Len(s) /\ s[e + 1] = SEMI THEN e + 1 ELSE e

\* html._replace_charref for a named reference g (the text after "&"): the whole name
\* if html5 holds it, else its longest prefix of two characters or more that html5
\* holds, else the reference is left as written
RECURSIVE ReplacePrefix(_, _)
ReplacePrefix(g, x) ==
    IF x < 2 THEN <<AMP>> \o g
    ELSE IF InHtml5(SubSeq(g, 1, x)) THEN Html5Of(SubSeq(g, 1, x)) \o SubSeq(g, x + 1, Len(g))
    ELSE ReplacePrefix(g, x - 1)

ReplaceCharref(g) == IF InHtml5(g) THEN Html5Of(g) ELSE ReplacePrefix(g, Len(g) - 1)

\* html.unescape(text)
RECURSIVE UnescapeFrom(_, _)
UnescapeFrom(s, i) ==
    IF i > Len(s) THEN <<>>
    ELSE LET e == CharrefEnd(s, i)
         IN  IF e >= i THEN ReplaceCharref(SubSeq(s, i + 1, e)) \o UnescapeFrom(s, e + 1)
             ELSE <<s[i]>> \o UnescapeFrom(s, i + 1)

Unescape(s) == IF IndexOf(s, AMP, 1) = 0 THEN s ELSE UnescapeFrom(s, 1)

\* the last index of the run of characters of S that starts at i (i - 1 if none)
RECURSIVE RunEnd(_, _, _)
RunEnd(s, i, S) == IF i <= Len(s) /\ s[i] \in S THEN RunEnd(s, i + 1, S) ELSE i - 1

\* [ \t\r\f]+
HorizontalEnd(s, i) == LET e == RunEnd(s, i, {SPACE, 9, 13, 12}) IN IF e >= i THEN e ELSE 0

\* re.sub(r"[ \t\r\f]+", " ", text)
CollapseHorizontal(s) == Sub(s, HorizontalEnd, <<SPACE>>)

\* \n\s*\n\s* : a newline, then a run of whitespace that holds another newline; the
\* match takes the whole run
BlankLinesEnd(s, i) ==
    IF s[i] # NL THEN 0
    ELSE LET e == SkipSpace(s, i + 1) - 1
         IN  IF \E k \in (i + 1)..e : s[k] = NL THEN e ELSE 0

\* re.sub(r"\n\s*\n\s*", "\n", text)
CollapseBlankLines(s) == Sub(s, BlankLinesEnd, <<NL>>)

\* pop3_to_message.py html_to_text
HtmlToTextMessage(h) ==
    LET tagged == BlockClosesToNewlines(BreaksToNewlines(RemoveScripts(h)))
        text == Unescape(StripTags(tagged))
    IN  CollapseBlankLines(Strip(CollapseHorizontal(text)))

\* pop3_to_txt.py html_to_text
HtmlToTextTxt(h) ==
    LET tagged == ParagraphsToNewlines(BreaksToNewlines(RemoveScripts(h)))
        text == Unescape(StripTags(tagged))
    IN  Strip(CollapseBlankLines(CollapseHorizontal(text)))

\* html_to_text of the script sc
html_to_text(sc, h) == IF sc = "message" THEN HtmlToTextMessage(h) ELSE HtmlToTextTxt(h)

-----------------------------------------------------------------------------
(* bytes.decode(charset, errors="replace") *)

\* U+FFFD, what errors="replace" puts for bytes that do not decode
REPLACEMENT == 65533

\* the continuation bytes of UTF-8
Continuation == 128..191

\* the bytes that may follow the lead byte b of a multi-byte UTF-8 sequence
SecondBytes(b) ==
    IF b = 224 THEN 160..191
    ELSE IF b = 237 THEN 128..159
    ELSE IF b = 240 THEN 144..191
    ELSE IF b = 244 THEN 128..143
    ELSE Continuation

\* the number of bytes that follow the lead byte b (0: b is no lead byte)
Following(b) ==
    IF b >= 194 /\ b <= 223 THEN 1
    ELSE IF b >= 224 /\ b <= 239 THEN 2
    ELSE IF b >= 240 /\ b <= 244 THEN 3
    ELSE 0

HasByte(b, i, S) == i <= Len(b) /\ b[i] \in S

\* the utf-8 codec with errors="replace": every maximal ill-formed run becomes U+FFFD
RECURSIVE DecodeUtf8From(_, _)
DecodeUtf8From(b, i) ==
    IF i > Len(b) THEN <<>>
    ELSE LET c == b[i]
             n == Following(c)
         IN  IF c < 128 THEN <<c>> \o DecodeUtf8From(b, i + 1)
             ELSE IF n = 0 \/ ~HasByte(b, i + 1, SecondBytes(c))
                  THEN <<REPLACEMENT>> \o DecodeUtf8From(b, i + 1)
             ELSE IF n = 1
                  THEN <<(c - 192) * 64 + (b[i + 1] - 128)>> \o DecodeUtf8From(b, i + 2)
             ELSE IF ~HasByte(b, i + 2, Continuation)
                  THEN <<REPLACEMENT>> \o DecodeUtf8From(b, i + 2)
             ELSE IF n = 2
                  THEN <<(c - 224) * 4096 + (b[i + 1] - 128) * 64 + (b[i + 2] - 128)>>
                       \o DecodeUtf8From(b, i + 3)
             ELSE IF ~HasByte(b, i + 3, Continuation)
                  THEN <<REPLACEMENT>> \o DecodeUtf8From(b, i + 3)
             ELSE <<(c - 240) * 262144 + (b[i + 1] - 128) * 4096 + (b[i + 2] - 128) * 64
                     + (b[i + 3] - 128)>> \o DecodeUtf8From(b, i + 4)

DecodeUtf8(b) == DecodeUtf8From(b, 1)

\* the ascii codec with errors="replace"
DecodeAscii(b) == [k \in DOMAIN b |-> IF b[k] < 128 THEN b[k] ELSE REPLACEMENT]

\* the latin-1 codec: every byte is the character of the same number
DecodeLatin1(b) == b

\* the codec names Python knows, among those the model's messages declare
Utf8Names == {"utf-8", "utf8"}
AsciiNames == {"us-ascii", "ascii"}
Latin1Names == {"iso-8859-1", "latin-1"}

\* bytes.decode(charset, ...) raises LookupError: the charset names no codec
DecodeRaises(charset) == charset \notin Utf8Names \cup AsciiNames \cup Latin1Names

\* b.decode(charset, errors="replace") for a charset that names a codec
BytesDecode(b, charset) ==
    IF charset \in Utf8Names THEN DecodeUtf8(b)
    ELSE IF charset \in AsciiNames THEN DecodeAscii(b)
    ELSE DecodeLatin1(b)

\* decode_best_effort(b, preferred)
decode_best_effort(b, preferred) ==
    IF DecodeRaises(preferred) THEN BytesDecode(b, "latin-1") ELSE BytesDecode(b, preferred)

-----------------------------------------------------------------------------
(* The Message Tree and the body extractors: extract_text_body, extract_body *)

\* A part is [maintype, subtype, disp, charset, payload]: its content type, its
\* Content-Disposition header ("" when absent), its charset parameter ("" when absent)
\* and its payload bytes after transfer decoding.  A message is [multipart, head, parts]:
\* parts holds the sub-parts of a multi-part message in walk order.

\* msg.walk(): the message itself, then its sub-parts
Walk(m) == <<m.head>> \o m.parts

\* mutant of IsAttachment: the disposition is not lower-cased before the test
IsAttachmentCaseSensitive(part) ==
    \E i \in 1..(Len(part.disp) - 9) :
        SubSeq(part.disp, i, i + 9) = Str(<<"a", "t", "t", "a", "c", "h", "m", "e", "n", "t">>)

\* "attachment" in disp, disp lower-cased
IsAttachment(part) == Find(LowerText(part.disp), Str(<<"a", "t", "t", "a", "c", "h", "m", "e", "n", "t">>), 1) # 0

IsType(part, main, sub) == part.maintype = main /\ part.subtype = sub

\* payload = part.get_payload(decode=True) or b""; charset = part.get_content_charset()
\* or "utf-8"; payload.decode(charset, errors="replace"), and decode_best_effort(payload)
\* when that raises
PartText(part) ==
    LET charset == IF part.charset = "" THEN "utf-8" ELSE part.charset
    IN  IF DecodeRaises(charset) THEN decode_best_effort(part.payload, "utf-8")
        ELSE BytesDecode(part.payload, charset)

\* [f(x) for x in s if keep(x)]
Mapped(s, F(_)) == [k \in DOMAIN s |-> F(s[k])]

\* mutant of IsPlainPart: attachments are not skipped
IsPlainPartOrAttachment(part) == IsType(part, "text", "plain")

IsPlainPart(part) == ~IsAttachment(part) /\ IsType(part, "text", "plain")
IsHtmlPart(part) == ~IsAttachment(part) /\ IsType(part, "text", "html")
IsTextPart(part) == part.maintype = "text"
NotBlank(t) == Strip(t) # <<>>

\* the first loop over msg.walk(): plain_parts and html_parts
PlainParts(m) == Mapped(SelectSeq(Walk(m), IsPlainPart), PartText)
HtmlParts(m) == Mapped(SelectSeq(Walk(m), IsHtmlPart), PartText)

\* the fallback loop over msg.walk(): texts
TextParts(m) == Mapped(SelectSeq(Walk(m), IsTextPart), PartText)

BlankLine == <<NL, NL>>

\* the separator of the any-text fallback: "\n\n" in pop3_to_message.py, " " in pop3_to_txt.py
FallbackSeparator(sc) == IF sc = "message" THEN BlankLine ELSE <<SPACE>>

\* "\n\n".join(p.strip() for p in parts if p.strip())
JoinStripped(sep, parts) == Join(sep, Mapped(SelectSeq(parts, NotBlank), Strip))

\* mutant of JoinHtml: the HTML parts are joined as they are, html_to_text is not applied
JoinHtmlRaw(sc, parts) == Join(BlankLine, SelectSeq(parts, NotBlank))

\* "\n\n".join(html_to_text(h) for h in html_parts if h.strip())
JoinHtml(sc, parts) ==
    LET Normalize(h) == html_to_text(sc, h)
    IN  Join(BlankLine, Mapped(SelectSeq(parts, NotBlank), Normalize))

\* extract_text_body(msg) of pop3_to_message.py, extract_body(msg) of pop3_to_txt.py
ExtractBody(sc, m) ==
    IF m.multipart
    THEN IF PlainParts(m) # <<>> THEN JoinStripped(BlankLine, PlainParts(m))
         ELSE IF HtmlParts(m) # <<>> THEN JoinHtml(sc, HtmlParts(m))
         ELSE JoinStripped(FallbackSeparator(sc), TextParts(m))
    ELSE IF IsType(m.head, "text", "html") THEN html_to_text(sc, PartText(m.head))
         ELSE PartText(m.head)

-----------------------------------------------------------------------------
(* fetch_messages *)

\* indices = [int(line.split()[0]) for line in listings]
ListingIndices(ls) == [k \in DOMAIN ls |-> ls[k].index]

\* pop3_to_message.py: indices[:max_messages]
TruncateMessage(ix, n) == IF n = NoMax THEN ix ELSE SliceTo(ix, n[1])

\* pop3_to_txt.py: indices[: max(0, int(max_messages))]
TruncateTxt(ix, n) == IF n = NoMax THEN ix ELSE SliceTo(ix, Max(0, n[1]))

Truncate(sc, ix, n) == IF sc = "message" THEN TruncateMessage(ix, n) ELSE TruncateTxt(ix, n)

\* the indices fetch_messages selects from a LIST answer
SelectIndices(sc, ls, n) == Truncate(sc, SortDescending(ListingIndices(ls)), n)

\* an exception raised inside the try block: control goes to the finally block
Raise(op) ==
    /\ pending' = op
    /\ pc' = "finally"

\* poplib.POP3_SSL(...) / poplib.POP3(...): the connection opens or the constructor raises
Connect ==
    /\ pc = "connect"
    /\ \/ /\ conn' = "open"
          /\ pc' = "user"
          /\ UNCHANGED pending
       \/ /\ Raise("connect")
          /\ UNCHANGED conn
    /\ UNCHANGED <<bodyVars, exportVars, script, listings, max_messages, indices, messages, sent, quitRaised, result>>

\* mutant of User: a rejected username is noted but the secret is sent all the same
UserNotFailFast ==
    /\ pc = "user"
    /\ sent' = Append(sent, <<"user">>)
    /\ pc' = "pass"
    /\ pending' \in {None, "user"}
    /\ UNCHANGED <<bodyVars, exportVars, script, listings, max_messages, conn, indices, messages, quitRaised, result>>

\* conn.user(user)
User ==
    /\ pc = "user"
    /\ sent' = Append(sent, <<"user">>)
    /\ \/ /\ pc' = "pass"
          /\ UNCHANGED pending
       \/ Raise("user")
    /\ UNCHANGED <<bodyVars, exportVars, script, listings, max_messages, conn, indices, messages, quitRaised, result>>

\* conn.pass_(password)
Pass ==
    /\ pc = "pass"
    /\ sent' = Append(sent, <<"pass">>)
    /\ \/ /\ pc' = "list"
          /\ UNCHANGED pending
       \/ Raise("pass")
    /\ UNCHANGED <<bodyVars, exportVars, script, listings, max_messages, conn, indices, messages, quitRaised, result>>

\* conn.list(), then the indices are parsed, sorted and truncated; messages = []
List ==
    /\ pc = "list"
    /\ sent' = Append(sent, <<"list">>)
    /\ \/ /\ indices' = SelectIndices(script, listings, max_messages)
          /\ messages' = <<>>
          /\ pc' = "retr"
          /\ UNCHANGED pending
       \/ /\ Raise("list")
          /\ UNCHANGED <<indices, messages>>
    /\ UNCHANGED <<bodyVars, exportVars, script, listings, max_messages, conn, quitRaised, result>>

\* mutant of Retr: every retrieved message is deleted from the mailbox afterwards
RetrThenDelete ==
    /\ pc = "retr"
    /\ indices # <<>>
    /\ \/ /\ sent' = sent \o <<<<"retr", Head(indices)>>, <<"dele", Head(indices)>>>>
          /\ messages' = Append(messages, [index |-> Head(indices)])
          /\ indices' = Tail(indices)
          /\ UNCHANGED <<pc, pending>>
       \/ /\ sent' = Append(sent, <<"retr", Head(indices)>>)
          /\ Raise("retr")
          /\ UNCHANGED <<indices, messages>>
    /\ UNCHANGED <<bodyVars, exportVars, script, listings, max_messages, conn, quitRaised, result>>

\* one turn of the for loop: conn.retr(i), message_from_bytes, messages.append
Retr ==
    /\ pc = "retr"
    /\ indices # <<>>
    /\ sent' = Append(sent, <<"retr", Head(indices)>>)
    /\ \/ /\ messages' = Append(messages, [index |-> Head(indices)])
          /\ indices' = Tail(indices)
          /\ UNCHANGED <<pc, pending>>
       \/ /\ Raise("retr")
          /\ UNCHANGED <<indices, messages>>
    /\ UNCHANGED <<bodyVars, exportVars, script, listings, max_messages, conn, quitRaised, result>>

\* message_from_bytes(raw) raises on the message just retrieved
ParseError ==
    /\ pc = "retr"
    /\ indices # <<>>
    /\ sent' = Append(sent, <<"retr", Head(indices)>>)
    /\ Raise("parse")
    /\ UNCHANGED <<bodyVars, exportVars, script, listings, max_messages, conn, indices, messages, quitRaised, result>>

\* return messages: the value is kept while the finally block runs
Return ==
    /\ pc = "retr"
    /\ indices = <<>>
    /\ pc' = "finally"
    /\ UNCHANGED <<bodyVars, exportVars, script, listings, max_messages, conn, indices, messages, sent, pending,
                   quitRaised, result>>

\* mutant of Finally: an exception of conn.quit() is not swallowed and replaces the outcome
FinallyQuitPropagates ==
    /\ pc = "finally"
    /\ \/ /\ conn # None
          /\ sent' = Append(sent, <<"quit">>)
          /\ quitRaised' \in BOOLEAN
       \/ /\ conn = None
          /\ UNCHANGED <<sent, quitRaised>>
    /\ result' = IF quitRaised' THEN [kind |-> "raised", messages |-> <<>>, error |-> "quit"]
                  ELSE IF pending = None
                       THEN [kind |-> "returned", messages |-> messages, error |-> None]
                       ELSE [kind |-> "raised", messages |-> <<>>, error |-> pending]
    /\ pc' = "done"
    /\ UNCHANGED <<bodyVars, exportVars, script, listings, max_messages, conn, indices, messages, pending>>

\* the finally block: conn.quit() if a connection exists, its exception swallowed;
\* then the function returns messages or re-raises the exception in flight
Finally ==
    /\ pc = "finally"
    /\ \/ /\ conn # None
          /\ sent' = Append(sent, <<"quit">>)
          /\ quitRaised' \in BOOLEAN
       \/ /\ conn = None
          /\ UNCHANGED <<sent, quitRaised>>
    /\ result' = IF pending = None THEN Returned(messages) ELSE Raised(pending)
    /\ pc' = "done"
    /\ UNCHANGED <<bodyVars, exportVars, script, listings, max_messages, conn, indices, messages, pending>>

RECURSIVE ListAnswers(_)
\* every ordering of the indices in S, each with a size
ListAnswers(S) ==
    IF S = {} THEN {<<>>}
    ELSE UNION {{<<[index |-> x, octets |-> 100 + x]>> \o p : p \in ListAnswers(S \ {x})} : x \in S}

\* the LIST answers of the model: every subset of 1..MaxIndex in every order
Mailboxes == UNION {ListAnswers(S) : S \in SUBSET (1..MaxIndex)}

MaxArguments == {NoMax} \cup {<<n>> : n \in -1..MaxCount}

FetchIdle ==
    /\ listings = <<>>
    /\ max_messages = NoMax
    /\ pc = "idle"
    /\ conn = None
    /\ indices = <<>>
    /\ messages = <<>>
    /\ sent = <<>>
    /\ pending = None
    /\ quitRaised = FALSE
    /\ result = Running

\* a part, and the head of a multi-part message
Part(main, sub, disp, charset, payload) ==
    [maintype |-> main, subtype |-> sub, disp |-> disp, charset |-> charset,
     payload |-> payload]

MultipartHead == Part("multipart", "mixed", <<>>, "", <<>>)

\* a multi-part message of the given parts, and a message of one part
Multipart(parts) == [multipart |-> TRUE, head |-> MultipartHead, parts |-> parts]
SinglePart(part) == [multipart |-> FALSE, head |-> part, parts |-> <<>>]

NoMessage == SinglePart(Part("text", "plain", <<>>, "", <<>>))
NoRecord == [body |-> <<>>]

BodyIdle ==
    /\ msg = NoMessage
    /\ body = <<>>
    /\ record = NoRecord
    /\ twice = <<>>
    /\ bpc = "idle"

ExportIdle ==
    /\ msgs = <<>>
    /\ rows = <<>>
    /\ file = <<>>
    /\ epc = "idle"

Init ==
    /\ BodyIdle
    /\ ExportIdle
    /\ script \in Scripts
    /\ listings \in Mailboxes
    /\ max_messages \in MaxArguments
    /\ pc = "connect"
    /\ conn = None
    /\ indices = <<>>
    /\ messages = <<>>
    /\ sent = <<>>
    /\ pending = None
    /\ quitRaised = FALSE
    /\ result = Running

Next ==
    \/ Connect
    \/ User
    \/ Pass
    \/ List
    \/ Retr
    \/ ParseError
    \/ Return
    \/ Finally

Spec == Init /\ [][Next]_vars

-----------------------------------------------------------------------------
(* The body extractors as a state machine: SpecBody *)

\* every sequence over S of length at most n
SeqsUpTo(S, n) == UNION {[1..k -> S] : k \in 0..n}

\* the concatenation of a sequence of texts
RECURSIVE Concat(_)
Concat(ss) == IF ss = <<>> THEN <<>> ELSE Head(ss) \o Concat(Tail(ss))

\* body = extract_text_body(msg) (pop3_to_message.py), email_body = extract_body(msg)
\* (pop3_to_txt.py)
ExtractTextBody ==
    /\ bpc = "parsed"
    /\ body' = ExtractBody(script, msg)
    /\ bpc' = "extracted"
    /\ UNCHANGED <<fetchVars, exportVars, script, msg, record, twice>>

\* message_to_struct: the record's body is the extracted body (the header fields of
\* the record do not depend on the body and are not modelled)
MessageToStruct ==
    /\ bpc = "extracted"
    /\ script = "message"
    /\ record' = [body |-> body]
    /\ bpc' = "built"
    /\ UNCHANGED <<fetchVars, exportVars, script, msg, body, twice>>

\* html_to_text applied to the text it returned
NormalizeAgain ==
    /\ bpc = "extracted"
    /\ twice' = html_to_text(script, body)
    /\ bpc' = "renormalized"
    /\ UNCHANGED <<fetchVars, exportVars, script, msg, body, record>>

\* the parts a multi-part message of the model may hold
MaxParts == 2

AttachmentDisposition ==
    Str(<<"A", "t", "t", "a", "c", "h", "m", "e", "n", "t", ";", " ", "f", "i", "l", "e",
          "n", "a", "m", "e", "=", "a", ".", "t", "x", "t">>)

Dispositions == {<<>>, AttachmentDisposition}

ContentTypes == {<<"text", "plain">>, <<"text", "html">>, <<"text", "csv">>}

\* <<charset, payload>>: plain text with a CRLF, whitespace only, text with tags and
\* surrounding whitespace, escaped tags, bytes under an unknown and under a known
\* charset that cannot decode them, and angle brackets that close no tag
Contents ==
    {<<"utf-8", Str(<<"H", "i", "\r", "\n", "B", "o", "b">>)>>,
     <<"", Str(<<" ", "\n">>)>>,
     <<"us-ascii", Str(<<" ", "<", "b", ">", "x", "<", "/", "b", ">">>)>>,
     <<"utf-8", Str(<<"&", "l", "t", ";", "i", "&", "g", "t", ";">>)>>,
     <<"x-unknown", <<195, 169, 255>> >>,
     <<"us-ascii", <<195, 169>> >>,
     <<"utf-8", Str(<<">", " ", "<">>)>>}

Parts ==
    {Part(t[1], t[2], d, c[1], c[2]) : t \in ContentTypes, d \in Dispositions, c \in Contents}

BodyMessages ==
    {Multipart(ps) : ps \in SeqsUpTo(Parts, MaxParts)} \cup {SinglePart(p) : p \in Parts}

InitBody ==
    /\ FetchIdle
    /\ ExportIdle
    /\ script \in Scripts
    /\ msg \in BodyMessages
    /\ body = <<>>
    /\ record = NoRecord
    /\ twice = <<>>
    /\ bpc = "parsed"

NextBody ==
    \/ ExtractTextBody
    \/ MessageToStruct

SpecBody == InitBody /\ [][NextBody]_vars

-----------------------------------------------------------------------------
(* html_to_text as a state machine: SpecHtml.  The message is a single text/html part *)

\* an HTML fragment is a sequence of at most MaxFragments of these pieces
MaxFragments == 3

Fragments ==
    {Str(<<"x">>), Str(<<" ">>), Str(<<"\n">>),
     Str(<<"<", "b", ">">>), Str(<<"<", "/", "p", ">">>), Str(<<"<", "B", "R", " ", "/", ">">>),
     Str(<<"<", "d", "i", "v", ">">>), Str(<<"<", "/", "d", "i", "v", ">">>),
     Str(<<"<", "s", "t", "y", "l", "e", ">">>), Str(<<"<", "/", "S", "T", "Y", "L", "E", ">">>),
     Str(<<"&", "a", "m", "p", ";">>), Str(<<"&", "l", "t", ";">>), Str(<<"&", "g", "t">>),
     Str(<<"l", "t", ";">>), Str(<<"<">>), Str(<<">">>)}

\* fragments spelled out in full
HtmlExamples ==
    {Str(<<"<", "p", ">", "H", "e", "l", "l", "o", "<", "/", "p", ">", "<", "b", "r", ">",
           "<", "b", ">", "W", "o", "r", "l", "d", "<", "/", "b", ">">>),
     Str(<<"<", "d", "i", "v", ">", "a", "<", "/", "d", "i", "v", ">",
           "<", "d", "i", "v", ">", "b", "<", "/", "d", "i", "v", ">">>),
     Str(<<"a", "<", "p", ">", "b">>)}

HtmlInputs == {Concat(fs) : fs \in SeqsUpTo(Fragments, MaxFragments)} \cup HtmlExamples

InitHtml ==
    /\ FetchIdle
    /\ ExportIdle
    /\ script \in Scripts
    /\ msg \in {SinglePart(Part("text", "html", <<>>, "utf-8", h)) : h \in HtmlInputs}
    /\ body = <<>>
    /\ record = NoRecord
    /\ twice = <<>>
    /\ bpc = "parsed"

NextHtml ==
    \/ ExtractTextBody
    \/ NormalizeAgain

SpecHtml == InitHtml /\ [][NextHtml]_vars

-----------------------------------------------------------------------------
(* The flat corpus export of pop3_to_txt.py: SpecExport *)

\* (?s)\r\n
CrLfEnd(s, i) == IF s[i] = 13 /\ i + 1 <= Len(s) /\ s[i + 1] = NL THEN i + 1 ELSE 0

\* email_body.replace("\r\n", " ")
ReplaceCrLf(s) == Sub(s, CrLfEnd, <<SPACE>>)

NotPunctuation(c) == ~IsPunctuation(c)

\* translate(str.maketrans('', '', string.punctuation))
RemovePunctuation(s) == SelectSeq(s, NotPunctuation)

\* str.split(): the maximal runs of characters that are not whitespace
RECURSIVE WordEnd(_, _)
WordEnd(s, i) == IF i <= Len(s) /\ ~IsSpace(s[i]) THEN WordEnd(s, i + 1) ELSE i - 1

RECURSIVE SplitFrom(_, _)
SplitFrom(s, i) ==
    IF i > Len(s) THEN <<>>
    ELSE IF IsSpace(s[i]) THEN SplitFrom(s, i + 1)
    ELSE <<SubSeq(s, i, WordEnd(s, i))>> \o SplitFrom(s, WordEnd(s, i) + 1)

Split(s) == SplitFrom(s, 1)

\* mutant of RowOf: the text is not split on whitespace and rejoined
RowOfNotSplit(email_body) == RemovePunctuation(LowerText(ReplaceCrLf(email_body)))

\* main, lines 221 to 224: the row of one message body
RowOf(email_body) ==
    Join(<<SPACE>>, Split(RemovePunctuation(LowerText(ReplaceCrLf(email_body)))))

NewlineEnd(s, i) == IF s[i] = NL THEN i ELSE 0

\* write_email_file: text.strip().replace("\n", " ") + "\n"
LineOf(text) == Sub(Strip(text), NewlineEnd, <<SPACE>>) \o <<NL>>

\* one turn of main's loop over msgs
ExportRow ==
    /\ epc = "rows"
    /\ Len(rows) < Len(msgs)
    /\ rows' = Append(rows, RowOf(ExtractBody(script, msgs[Len(rows) + 1])))
    /\ UNCHANGED <<fetchVars, bodyVars, script, msgs, file, epc>>

\* write_email_file(rows, default_out), after the loop
WriteEmailFile ==
    /\ epc = "rows"
    /\ Len(rows) = Len(msgs)
    /\ file' = Concat(Mapped(rows, LineOf))
    /\ epc' = "written"
    /\ UNCHANGED <<fetchVars, bodyVars, script, msgs, rows>>

\* at most MaxMessages messages are exported
MaxMessages == 3
\* the exhaustive message bodies are at most MaxBodyLength characters long
MaxBodyLength == 3

PlainMessage(text) == SinglePart(Part("text", "plain", <<>>, "utf-8", text))

ExportExamples ==
    {PlainMessage(Str(<<"H", "e", "l", "l", "o", ",", " ", "W", "o", "r", "l", "d", "!", "!",
                        "!", " ", " ", "B", "u", "y", " ", "N", "O", "W", ".">>)),
     PlainMessage(Str(<<"H", "i", "\r", "\n", "B", "o", "b">>)),
     PlainMessage(<<>>),
     PlainMessage(Str(<<" ", "A", "\n", "\n", "b", "-", "c", "\t">>)),
     SinglePart(Part("text", "html", <<>>, "utf-8",
                     Str(<<"<", "p", ">", "H", "i", "<", "/", "p", ">", "<", "b", ">", "Y",
                           "o", "u", "<", "/", "b", ">">>))),
     Multipart(<<Part("text", "csv", <<>>, "", Str(<<"a", ",", "B">>)),
                 Part("text", "csv", AttachmentDisposition, "", Str(<<"C", "\n", "d">>))>>)}

ExportAlphabet == {Ord["A"], Ord["b"], Ord[","], Ord[" "], Ord["\n"], Ord["\r"]}

ShortMessages == {PlainMessage(t) : t \in SeqsUpTo(ExportAlphabet, MaxBodyLength)}

\* any examples in any order, or one message with any short body
Exports == SeqsUpTo(ExportExamples, MaxMessages) \cup {<<m>> : m \in ShortMessages}

InitExport ==
    /\ FetchIdle
    /\ BodyIdle
    /\ script = "txt"
    /\ msgs \in Exports
    /\ rows = <<>>
    /\ file = <<>>
    /\ epc = "rows"

NextExport ==
    \/ ExportRow
    \/ WriteEmailFile

SpecExport == InitExport /\ [][NextExport]_vars

-----------------------------------------------------------------------------
(* Claims about fetch_messages, checked under Spec *)

\* the indices of a list of messages, in order
IndexesOf(ms) == [k \in DOMAIN ms |-> ms[k].index]

Range(s) == {s[k] : k \in DOMAIN s}

StrictlyDescending(s) == \A k \in 1..(Len(s) - 1) : s[k] > s[k + 1]

\* s holds the n highest members of S: n of them, all of S, none lower than one left out
HighestOf(s, S, n) ==
    /\ Len(s) = n
    /\ Range(s) \subseteq S
    /\ \A x \in S \ Range(s) : \A y \in Range(s) : x < y

Count(s, x) == Cardinality({k \in DOMAIN s : s[k] = x})

\* C1: with a maximum N >= 0 fetch_messages returns at most N messages, and when the
\* mailbox lists at least N messages exactly those of the N highest indices, by strictly
\* descending index; with no maximum it returns every listed message by descending index.
C1_NewestFirstAtMostN ==
    (pc = "done" /\ result.kind = "returned") =>
        LET got == IndexesOf(result.messages)
            listed == Range(ListingIndices(listings))
        IN  /\ StrictlyDescending(got)
            /\ max_messages = NoMax => HighestOf(got, listed, Len(listings))
            /\ (max_messages # NoMax /\ max_messages[1] >= 0) =>
                  /\ Len(got) <= max_messages[1]
                  /\ Len(listings) >= max_messages[1] =>
                        HighestOf(got, listed, max_messages[1])

\* C1 witness: an unsorted mailbox of three messages, a maximum of two, the newest two returned
C1_Witness ==
    /\ pc = "done"
    /\ result.kind = "returned"
    /\ ListingIndices(listings) = <<2, 3, 1>>
    /\ max_messages = <<2>>
    /\ IndexesOf(result.messages) = <<3, 2>>

\* C2: once the connection is open, quit is sent exactly once, as the last command, before
\* fetch_messages ends, and never earlier; an exception of quit changes nothing: the
\* messages are returned when nothing else failed, the first exception propagates otherwise.
C2_QuitOnceOnEveryExit ==
    /\ (pc # "done" /\ pc # "idle") => Count(sent, <<"quit">>) = 0
    /\ (pc = "done" /\ conn # None) =>
          /\ Count(sent, <<"quit">>) = 1
          /\ sent[Len(sent)] = <<"quit">>
          /\ pending = None => (result.kind = "returned" /\ result.messages = messages)
          /\ pending # None => (result.kind = "raised" /\ result.error = pending)

\* C2 witness: a retrieve failed after one message, quit raised too, the retrieve error propagated
C2_Witness ==
    /\ pc = "done"
    /\ quitRaised
    /\ Len(messages) = 1
    /\ result.kind = "raised"
    /\ result.error = "retr"
    /\ Count(sent, <<"quit">>) = 1

IsRetr(c) == c[1] = "retr"

\* C3: after a rejected username the secret is never sent; after a failed connection or a
\* rejected username or secret no list and no retrieve is sent, no message is held, and
\* fetch_messages ends by raising that error, returning nothing.
C3_AuthenticationFailFast ==
    /\ pending \in {"connect", "user"} => Count(sent, <<"pass">>) = 0
    /\ pending \in {"connect", "user", "pass"} =>
          /\ Count(sent, <<"list">>) = 0
          /\ \A k \in DOMAIN sent : ~IsRetr(sent[k])
          /\ messages = <<>>
          /\ pc \in {"finally", "done"}
          /\ pc = "done" => (result.kind = "raised" /\ result.error = pending
                               /\ result.messages = <<>>)

\* C3 witness: the secret was rejected; only user, pass and quit were sent
C3_Witness ==
    /\ pc = "done"
    /\ pending = "pass"
    /\ sent = << <<"user">>, <<"pass">>, <<"quit">> >>
    /\ result.kind = "raised"

-----------------------------------------------------------------------------
(* Claims about the body extractors, checked under SpecBody *)

Extracted == bpc \in {"extracted", "built", "renormalized"}

HasChar(s, c) == \E k \in DOMAIN s : s[k] = c

\* a "<" with a ">" somewhere after it
HasTag(s) == \E i \in DOMAIN s : \E j \in DOMAIN s : i < j /\ s[i] = LT /\ s[j] = GT

NonAttachmentPlain(part) == ~IsAttachment(part) /\ part.maintype = "text" /\ part.subtype = "plain"
NonAttachmentHtml(part) == ~IsAttachment(part) /\ part.maintype = "text" /\ part.subtype = "html"

\* the trimmed decoded payloads of the non-attachment text/plain parts, in part order
RECURSIVE TrimmedPlainTexts(_)
TrimmedPlainTexts(ps) ==
    IF ps = <<>> THEN <<>>
    ELSE (IF NonAttachmentPlain(Head(ps)) THEN <<Strip(PartText(Head(ps)))>> ELSE <<>>)
         \o TrimmedPlainTexts(Tail(ps))

NotEmpty(t) == t # <<>>
NotHtml(part) == ~(part.maintype = "text" /\ part.subtype = "html")

\* the message without its text/html parts
WithoutHtml(m) == [m EXCEPT !.parts = SelectSeq(m.parts, NotHtml)]

\* a multi-part message with a non-attachment text/plain part has been extracted
PlainCase ==
    /\ Extracted
    /\ msg.multipart
    /\ \E k \in DOMAIN msg.parts : NonAttachmentPlain(msg.parts[k])

\* C4, as amended: for a multi-part message with a non-attachment text/plain part the
\* body is the trimmed decoded payloads of those parts that are not empty after
\* trimming, in part order, joined by a blank line; and it is the body of the same
\* message without its text/html parts.
C4_PlainPartsJoined ==
    PlainCase =>
        /\ body = Join(BlankLine, SelectSeq(TrimmedPlainTexts(msg.parts), NotEmpty))
        /\ body = ExtractBody(script, WithoutHtml(msg))

\* C4 witness: an HTML part, then a plain part with surrounding whitespace; only the
\* trimmed plain text is the body
C4_Witness ==
    /\ bpc = "extracted"
    /\ msg.multipart
    /\ Len(msg.parts) = 2
    /\ NonAttachmentHtml(msg.parts[1])
    /\ NonAttachmentPlain(msg.parts[2])
    /\ msg.parts[1].payload = Str(<<" ", "<", "b", ">", "x", "<", "/", "b", ">">>)
    /\ msg.parts[2].payload = Str(<<" ", "<", "b", ">", "x", "<", "/", "b", ">">>)
    /\ body = Str(<<"<", "b", ">", "x", "<", "/", "b", ">">>)

\* C4 as stated: the body is the blank-line join of the trimmed decoded payload of
\* every non-attachment text/plain part (a part that is empty after trimming included).
C4_Original ==
    PlainCase => body = Join(BlankLine, TrimmedPlainTexts(msg.parts))

HiCrLfBob == Str(<<"H", "i", "\r", "\n", "B", "o", "b">>)

\* a plain part "Hi\r\nBob", then a text/plain part whose disposition is an attachment
HiBobScenario ==
    /\ Extracted
    /\ msg.multipart
    /\ Len(msg.parts) = 2
    /\ NonAttachmentPlain(msg.parts[1])
    /\ msg.parts[1].payload = HiCrLfBob
    /\ msg.parts[2].maintype = "text" /\ msg.parts[2].subtype = "plain"
    /\ msg.parts[2].disp = AttachmentDisposition

\* C5, as amended: for a plain part "Hi\r\nBob" and a text/plain attachment the body is
\* exactly "Hi\r\nBob": the attachment's text is excluded and the CRLF is kept.
C5_AttachmentExcluded == HiBobScenario => body = HiCrLfBob

\* C5 witness: the attachment holds text of its own
C5_Witness ==
    /\ HiBobScenario
    /\ bpc = "extracted"
    /\ NotBlank(PartText(msg.parts[2]))
    /\ body = HiCrLfBob

\* C5 as stated: the body is "Hi\nBob".
C5_Original == HiBobScenario => body = Str(<<"H", "i", "\n", "B", "o", "b">>)

\* the body was taken from HTML: a single text/html part, or a multi-part message with
\* no non-attachment text/plain part and a non-attachment text/html part
HtmlSourced(m) ==
    IF m.multipart
    THEN /\ \A k \in DOMAIN m.parts : ~NonAttachmentPlain(m.parts[k])
         /\ \E k \in DOMAIN m.parts : NonAttachmentHtml(m.parts[k])
    ELSE m.head.maintype = "text" /\ m.head.subtype = "html"

\* the HTML parts the body is taken from
HtmlSources(m) ==
    IF m.multipart THEN {m.parts[k] : k \in {j \in DOMAIN m.parts : NonAttachmentHtml(m.parts[j])}}
    ELSE {m.head}

\* the first index of a blank line ("\n\n") in s, or 0
RECURSIVE BlankLineAt(_, _)
BlankLineAt(s, i) ==
    IF i + 1 > Len(s) THEN 0
    ELSE IF s[i] = NL /\ s[i + 1] = NL THEN i
    ELSE BlankLineAt(s, i + 1)

\* s.split("\n\n")
RECURSIVE Blocks(_)
Blocks(s) ==
    LET i == BlankLineAt(s, 1)
    IN  IF i = 0 THEN <<s>>
        ELSE <<SubSeq(s, 1, i - 1)>> \o Blocks(SubSeq(s, i + 2, Len(s)))

\* C8, as amended: a record whose body is taken from HTML parts that hold no "&" has no
\* tag (a "<" with a ">" after it) inside any blank-line-separated block of the body,
\* that is inside the text of any one part; the body of a single-part message that is
\* not text/html is its decoded text as it is, markup included.
C8_HtmlBodyHasNoTags ==
    bpc = "built" =>
        /\ (HtmlSourced(msg) /\ \A p \in HtmlSources(msg) : ~HasChar(PartText(p), AMP)) =>
              \A k \in DOMAIN Blocks(record.body) : ~HasTag(Blocks(record.body)[k])
        /\ (~msg.multipart /\ ~HtmlSourced(msg)) => record.body = PartText(msg.head)

\* C8 witness: two HTML parts with tags, a record body of two blocks without tags
C8_Witness ==
    /\ bpc = "built"
    /\ msg.multipart
    /\ Len(msg.parts) = 2
    /\ \A k \in 1..2 :
          /\ NonAttachmentHtml(msg.parts[k])
          /\ msg.parts[k].payload = Str(<<" ", "<", "b", ">", "x", "<", "/", "b", ">">>)
    /\ record.body = Str(<<"x", "\n", "\n", "x">>)

\* C8 as stated: no record body holds a markup tag.
C8_Original == bpc = "built" => ~HasTag(record.body)

\* the bytes b do not decode in the charset
Utf8Valid(b) == ~HasChar(DecodeUtf8(b), REPLACEMENT)
InvalidIn(b, charset) ==
    IF charset \in Utf8Names THEN ~Utf8Valid(b)
    ELSE IF charset \in AsciiNames THEN \E k \in DOMAIN b : b[k] >= 128
    ELSE FALSE

\* C9 as stated: a single text/plain part whose charset is unsupported, or whose payload
\* holds bytes invalid in its charset, yields the payload decoded as UTF-8 or, where
\* that fails, by the byte-preserving single-byte decoding.
C9_FallbackChain ==
    LET charset == IF msg.head.charset = "" THEN "utf-8" ELSE msg.head.charset
    IN  (/\ Extracted
         /\ ~msg.multipart
         /\ msg.head.maintype = "text" /\ msg.head.subtype = "plain"
         /\ DecodeRaises(charset) \/ InvalidIn(msg.head.payload, charset))
        => body = IF Utf8Valid(msg.head.payload) THEN DecodeUtf8(msg.head.payload)
                  ELSE DecodeLatin1(msg.head.payload)

-----------------------------------------------------------------------------
(* Claims about html_to_text, checked under SpecHtml *)

\* C6, as amended: for a single text/html part whose text holds no "&", the body holds
\* no tag (a "<" with a ">" after it) and no "&", hence no entity; and the payload
\* "&amp;" yields "&".
C6_HtmlBodyStripped ==
    Extracted =>
        /\ ~HasChar(PartText(msg.head), AMP) => (~HasTag(body) /\ ~HasChar(body, AMP))
        /\ msg.head.payload = Str(<<"&", "a", "m", "p", ";">>) => body = <<AMP>>

\* C6 witness: tags around a text, none of them left
C6_Witness ==
    /\ bpc = "extracted"
    /\ msg.head.payload = Str(<<"<", "b", ">", "x", "<", "/", "p", ">">>)
    /\ body = Str(<<"x">>)

\* C6 as stated: the body of a single text/html part holds no "<", no ">" and no entity.
C6_Original ==
    Extracted => (~HasChar(body, LT) /\ ~HasChar(body, GT) /\ Unescape(body) = body)

\* C7, as amended: html_to_text returns its own output unchanged when that output holds
\* no "&" and no tag (a "<" with a ">" after it).
C7_IdempotentOnCleanText ==
    (bpc = "renormalized" /\ ~HasChar(body, AMP) /\ ~HasTag(body)) => twice = body

\* C7 witness: a paragraph break became a newline; a second pass changes nothing
C7_Witness ==
    /\ bpc = "renormalized"
    /\ msg.head.payload = Str(<<"x", "<", "/", "p", ">", "x">>)
    /\ body = Str(<<"x", "\n", "x">>)
    /\ twice = body

\* C7 as stated: html_to_text(html_to_text(h)) = html_to_text(h) for every fragment h.
C7_Original == bpc = "renormalized" => twice = body

-----------------------------------------------------------------------------
(* Claims about the flat corpus export, checked under SpecExport *)

\* the lines of a text in which every line ends with "\n"
RECURSIVE FileLines(_)
FileLines(f) ==
    IF f = <<>> THEN <<>>
    ELSE LET i == IndexOf(f, NL, 1)
         IN  IF i = 0 THEN <<f>>
             ELSE <<SubSeq(f, 1, i - 1)>> \o FileLines(SubSeq(f, i + 1, Len(f)))

HelloWorld ==
    Str(<<"H", "e", "l", "l", "o", ",", " ", "W", "o", "r", "l", "d", "!", "!", "!", " ",
          " ", "B", "u", "y", " ", "N", "O", "W", ".">>)

HelloWorldLine ==
    Str(<<"h", "e", "l", "l", "o", " ", "w", "o", "r", "l", "d", " ", "b", "u", "y", " ",
          "n", "o", "w">>)

\* a line of the corpus: no capital letter, no punctuation, no line break, no space at
\* either end and no two spaces in a row
CorpusLine(l) ==
    /\ \A k \in DOMAIN l : ~(l[k] >= 65 /\ l[k] <= 90) /\ ~IsPunctuation(l[k])
    /\ \A k \in DOMAIN l : IsSpace(l[k]) => l[k] = SPACE
    /\ l # <<>> => (l[1] # SPACE /\ l[Len(l)] # SPACE)
    /\ \A k \in 1..(Len(l) - 1) : ~(l[k] = SPACE /\ l[k + 1] = SPACE)

-----------------------------------------------------------------------------
(* C11: the commands of a successful run *)

\* the indices of the retrieve commands of a command sequence, in the order sent
RECURSIVE RetrievedIn(_)
RetrievedIn(cs) ==
    IF cs = <<>> THEN <<>>
    ELSE IF IsRetr(Head(cs)) THEN <<Head(cs)[2]>> \o RetrievedIn(Tail(cs))
         ELSE RetrievedIn(Tail(cs))

\* the number of messages the claim's selection keeps of a mailbox of n messages: all of
\* them with no maximum, the first N with a maximum N >= 0
SelectedCount(n) == IF max_messages = NoMax THEN n ELSE Min(max_messages[1], n)

\* C11: when fetch_messages returns, the commands it sent are exactly user, pass, list,
\* one retr per selected index by strictly descending index, and quit; hence no retr
\* precedes list, no index is retrieved twice, only listed indices are retrieved and
\* nothing else (no dele) is sent. With no maximum every listed index is retrieved, with a
\* maximum N >= 0 the N highest (all when fewer are listed); with N = 0 list is sent, no
\* retr is, and the result is empty. The messages returned are those retrieved.
C11_CommandSequence ==
    (pc = "done" /\ result.kind = "returned") =>
        LET retrieved == RetrievedIn(sent)
            listed == Range(ListingIndices(listings))
            k == Len(retrieved)
        IN  /\ Len(sent) = k + 4
            /\ sent[1] = <<"user">>
            /\ sent[2] = <<"pass">>
            /\ sent[3] = <<"list">>
            /\ \A j \in 1..k : sent[3 + j] = <<"retr", retrieved[j]>>
            /\ sent[k + 4] = <<"quit">>
            /\ StrictlyDescending(retrieved)
            /\ Range(retrieved) \subseteq listed
            /\ retrieved = SelectIndices(script, listings, max_messages)
            /\ (max_messages = NoMax \/ max_messages[1] >= 0) =>
                  HighestOf(retrieved, listed, SelectedCount(Len(listings)))
            /\ max_messages = <<0>> => (retrieved = <<>> /\ result.messages = <<>>)
            /\ IndexesOf(result.messages) = retrieved

\* C11 witness: a mailbox listed as 1, 3, 2 and a maximum of two: user, pass, list, retr 3,
\* retr 2, quit
C11_Witness ==
    /\ pc = "done"
    /\ result.kind = "returned"
    /\ ListingIndices(listings) = <<1, 3, 2>>
    /\ max_messages = <<2>>
    /\ sent = <<<<"user">>, <<"pass">>, <<"list">>, <<"retr", 3>>, <<"retr", 2>>, <<"quit">>>>

-----------------------------------------------------------------------------
(* C12: block-level elements in html_to_text, checked under SpecHtml *)

DivExample ==
    Str(<<"<", "d", "i", "v", ">", "a", "<", "/", "d", "i", "v", ">",
          "<", "d", "i", "v", ">", "b", "<", "/", "d", "i", "v", ">">>)

HelloWorldExample ==
    Str(<<"<", "p", ">", "H", "e", "l", "l", "o", "<", "/", "p", ">", "<", "b", "r", ">",
          "<", "b", ">", "W", "o", "r", "l", "d", "<", "/", "b", ">">>)

\* C12: in both scripts html_to_text turns every closing tag of p, div, h1..h6, li and tr
\* into a newline before the tags are stripped, so that the body is what the script makes
\* of the text in which these closing tags are already newlines; an opening tag of these
\* elements is removed and puts no newline ("a<p>b" gives "ab");
\* "<div>a</div><div>b</div>" gives "a\nb" and "<p>Hello</p><br><b>World</b>" gives
\* "Hello\nWorld".
C12_BlockClosesBecomeNewlines ==
    Extracted =>
        LET h == PartText(msg.head)
        IN  /\ body = html_to_text(script, BlockClosesToNewlines(BreaksToNewlines(RemoveScripts(h))))
            /\ h = Str(<<"a", "<", "p", ">", "b">>) => body = Str(<<"a", "b">>)
            /\ h = DivExample => body = Str(<<"a", "\n", "b">>)
            /\ h = HelloWorldExample =>
                  body = Str(<<"H", "e", "l", "l", "o", "\n", "W", "o", "r", "l", "d">>)

====
